---- MODULE Spec2Model ----
(***************************************************************************)
(* Review ingestion of OzonRevui: the marketplace client                   *)
(* (OzonService.get_reviews), the scheduled cycle                          *)
(* (ReviewPoller.poll_reviews), the manual sync (sync_reviews) and the     *)
(* deduplicating ReviewService.process_new_review, as coroutines of one    *)
(* asyncio event loop.  A step of the model runs one coroutine from one    *)
(* suspension point (an awaited network call) to the next.                 *)
(***************************************************************************)
EXTENDS Integers, Sequences, FiniteSets, TLC

VARIABLES
    storage,                \* stored Review rows: external_id -> number of rows
    client_id,              \* OzonService.client_id, after normalisation
    api_key,                \* OzonService.api_key, after normalisation
    auto_response_enabled,  \* settings.auto_response_enabled
    task,                   \* per coroutine: the frame of its handler
    requests,               \* history: the candidates the observed get_reviews
                            \* call has requested so far, with their answers
    returned,               \* history: what the observed call returned
    scheduler,              \* ReviewPoller.scheduler: its state and its jobs
    last_cycle,             \* history: how the scheduled cycle before the
                            \* current one ended
    yandex,                 \* the YandexGPTService instance
    calls,                  \* per caller of the service: the frame of its call
    observed_429,           \* history: which operations were answered 429
    sending,                \* the frame of a send_response call, with the
                            \* history of its requests
    fetch,                  \* the frame of a get_reviews call, with its
                            \* arguments, its last answer and its result
    given                   \* history: the Client-Id and the Api-Key the
                            \* OzonService was constructed from

settings == <<client_id, api_key, auto_response_enabled>>
poller == <<scheduler, last_cycle>>
ai == <<yandex, calls, observed_429>>
\* The state of the operations that are followed on their own.
standalone == <<sending, fetch, given>>
vars == <<storage, settings, task, requests, returned, poller, ai, standalone>>

-----------------------------------------------------------------------------
(* Bounds of the model *)

NumIds == 2        \* external ids the marketplace draws reviews from
MaxFetches == 2    \* get_reviews calls explored in one scheduled cycle
MaxCycleFetches == 11   \* the same, for a scheduled cycle followed alone
MaxVariants == 3   \* num_variants of generate_response_drafts

(* Program constants *)

limit == 100            \* page size of both cycles
max_iterations == 10    \* batches of one manual sync
MinLimit == 20          \* get_reviews clamps limit into [MinLimit, MaxLimit]
MaxLimit == 100
default_days_back == 30 \* get_reviews(days_back=30)
sync_days_back == 30    \* sync_reviews passes days_back=30
polling_interval_minutes == 30  \* settings.polling_interval_minutes
yandex_api_key == ""    \* settings.yandex_api_key
yandex_folder_id == ""  \* settings.yandex_folder_id

Ids == 1..NumIds
\* The coroutines: the scheduled cycle, the cycle awaited at startup and the
\* manual sync.
Polls == {"poll", "eager"}
Procs == Polls \cup {"sync"}

\* The two candidate endpoints of get_reviews, in ranked order.
endpoints == <<"/v1/review/list", "/v2/review/list">>

Max(a, b) == IF a > b THEN a ELSE b
Min(a, b) == IF a < b THEN a ELSE b

-----------------------------------------------------------------------------
(* What the marketplace can answer *)

\* Batch lengths the marketplace answers with: empty, short and full pages.
Lens == {0, 1, 37, limit}

\* A page of n reviews: the ids in rotation from start; the payload at
\* position bad (if any) is one process_new_review raises on, written 0.
Page(start, n, bad) ==
    [j \in 1..n |-> IF j = bad THEN 0 ELSE ((start + j - 1) % NumIds) + 1]

\* The pages answered: a single review with any of the ids, and empty, short
\* and full pages with and without a payload that raises.
Pages ==
    {Page(start, 1, 0) : start \in 0..(NumIds - 1)}
        \cup {Page(0, n, bad) : n \in Lens, bad \in {0, 2}}

\* Parsed JSON bodies (the value of response.json()), as far as the code
\* looks into them.  type "invalid" stands for a body json() raises on.
\* has_result: "result" is an object with a "reviews" list, result_reviews;
\* result_count and result_total are its "count" and "total", total is the
\* top-level "total"; a key that is absent (or null) is written Missing.
Missing == -1
Json(type, has_reviews, reviews, has_result, result_reviews, result_count, result_total, total) ==
    [type |-> type, has_reviews |-> has_reviews, reviews |-> reviews,
     has_result |-> has_result, result_reviews |-> result_reviews,
     result_count |-> result_count, result_total |-> result_total,
     total |-> total]

None == Json("none", FALSE, <<>>, FALSE, <<>>, Missing, Missing, Missing)
InvalidBody ==
    Json("invalid", FALSE, <<>>, FALSE, <<>>, Missing, Missing, Missing)
EmptyDict == Json("dict", FALSE, <<>>, FALSE, <<>>, Missing, Missing, Missing)
ListBody == Json("list", FALSE, <<>>, FALSE, <<>>, Missing, Missing, Missing)
FlatBody(revs) ==
    Json("dict", TRUE, revs, FALSE, <<>>, Missing, Missing, Missing)
NestedBody(revs) ==
    Json("dict", FALSE, <<>>, TRUE, revs, Len(revs), Missing, Missing)

Bodies ==
    {InvalidBody, EmptyDict, ListBody}
        \cup {FlatBody(r) : r \in Pages} \cup {NestedBody(r) : r \in Pages}

Statuses == {200, 302, 401, 403, 404, 429, 500, 503}

\* error: client.post raised (timeout, connect failure), no status.
Responses ==
    {[error |-> TRUE, status_code |-> 0, body |-> None]}
        \cup {[error |-> FALSE, status_code |-> s, body |-> None] :
                s \in Statuses \ {200}}
        \cup {[error |-> FALSE, status_code |-> 200, body |-> b] : b \in Bodies}

\* Python truthiness of a get_reviews result.
Truthy(data) ==
    \/ data.type = "list"
    \/ data.type = "dict"
        /\ (data.has_reviews \/ data.has_result \/ data.total # Missing)

-----------------------------------------------------------------------------
(* OzonService *)

\* Strings as sequences of characters: a space, the digits 0 and 1, a minus
\* sign and a letter.
Chars == {" ", "0", "1", "-", "a"}
Digits == {"0", "1"}

\* The least and the greatest element of a non-empty set of positions.
First(S) == CHOOSE x \in S : \A y \in S : x <= y
Final(S) == CHOOSE x \in S : \A y \in S : x >= y

\* str.strip()
Strip(s) ==
    LET visible == {i \in 1..Len(s) : s[i] # " "}
    IN  IF visible = {} THEN <<>>
        ELSE SubSeq(s, First(visible), Final(visible))

\* The digits of a stripped string after its sign, if any.
Unsigned(s) == IF s # <<>> /\ s[1] = "-" THEN Tail(s) ELSE s

\* int(s) does not raise ValueError.
IsInt(s) ==
    /\ Unsigned(s) # <<>>
    /\ \A i \in 1..Len(Unsigned(s)) : Unsigned(s)[i] \in Digits

\* str(int(s)): no leading zeros, no sign on zero.
Canonical(s) ==
    LET d == Unsigned(s)
        nonzero == {i \in 1..Len(d) : d[i] # "0"}
    IN  IF nonzero = {} THEN <<"0">>
        ELSE (IF d # s THEN <<"-">> ELSE <<>>)
                \o SubSeq(d, First(nonzero), Len(d))

\* `argument or settings.<name>`: an argument that is None or "" gives way to
\* the setting.
Given(argument, setting) == IF argument # <<>> THEN argument ELSE setting

\* OzonService.__init__: the Client-Id and the Api-Key of the instance.
OzonService(client_id_value, api_key_value) ==
    [client_id |-> IF IsInt(Strip(client_id_value))
                   THEN Canonical(Strip(client_id_value))
                   ELSE Strip(client_id_value),
     api_key |-> Strip(api_key_value)]

\* `bool(self.client_id)`: the key is not looked at.
validate_credentials_mut == client_id # <<>>

validate_credentials == client_id # <<>> /\ api_key # <<>>

\* `max(20, limit)`: a limit above 100 would be sent as it is.
Clamp_mut(l) == Max(MinLimit, l)

Clamp(l) == Max(MinLimit, Min(l, MaxLimit))

\* The frame awaits client.post on candidate u.
Post(f, u) == [f EXCEPT !.pc = "http", !.url = u]

\* filter_config: the statuses, and date_from for a positive days_back
\* (written as the number of days before now).
\* `days_back >= 0`: a days_back of 0 would add date_from = now.
Filter_mut(days_back) ==
    IF days_back >= 0
    THEN [statuses |-> <<1>>, date_from |-> days_back]
    ELSE [statuses |-> <<1>>]

Filter(days_back) ==
    IF days_back > 0
    THEN [statuses |-> <<1>>, date_from |-> days_back]
    ELSE [statuses |-> <<1>>]

\* get_reviews up to its first await.
get_reviews(f, lim, off, days_back) ==
    Post([f EXCEPT !.payload = [limit |-> Clamp(lim), offset |-> off,
                                filter |-> Filter(days_back)]], 1)

\* nested.get("count") or nested.get("total"): a count that is absent or 0
\* is falsy and gives way to the total.
NestedTotal(data) ==
    IF data.result_count \notin {Missing, 0} THEN data.result_count
    ELSE data.result_total

\* The unwrapping of a body that nests the list under "result"; "total" is
\* set when the nested one is not None.
Normalize(data) ==
    IF data.type = "dict" /\ ~data.has_reviews /\ data.has_result
    THEN [data EXCEPT !.has_reviews = TRUE, !.reviews = data.result_reviews,
                      !.total = IF NestedTotal(data) # Missing
                                THEN NestedTotal(data) ELSE @]
    ELSE data

\* A status of the else branch that stops the retry loop.
\* `status_code < 400`: a 4xx status would fall through to the next candidate.
IsClientError_mut(status_code) == status_code < 400

IsClientError(status_code) == status_code < 500

\* What the loop body does with the answer of one candidate: `continue` (or
\* fall through) to the next one, or return data.
Continue == [kind |-> "continue", data |-> None]
ReturnData(data) == [kind |-> "return", data |-> data]

Outcome(resp) ==
    IF resp.error THEN Continue
    ELSE IF resp.status_code = 200
         THEN IF resp.body.type = "invalid" THEN Continue
              ELSE ReturnData(Normalize(resp.body))
    ELSE IF resp.status_code = 404 THEN Continue
    ELSE IF IsClientError(resp.status_code) THEN ReturnData(None)
    ELSE Continue

\* The candidate requested after candidate u, 0 when u was the last.
\* A candidate list walked cyclically: the call would never give up.
NextUrl_mut(u) == IF u < Len(endpoints) THEN u + 1 ELSE 1

NextUrl(u) == IF u < Len(endpoints) THEN u + 1 ELSE 0

\* get_reviews from the answer of candidate f.url to its next await or to
\* its return ("All endpoints failed" returns None).
Receive(f, resp) ==
    LET o == Outcome(resp)
    IN  IF o.kind = "continue" /\ NextUrl(f.url) # 0
        THEN [returned |-> FALSE, f |-> Post(f, NextUrl(f.url)), data |-> None]
        ELSE [returned |-> TRUE, f |-> f, data |-> o.data]

-----------------------------------------------------------------------------
(* OzonService.send_response *)

\* The three candidate endpoints of send_response, in ranked order.
send_endpoints ==
    <<"/v2/review/comment/create", "/v1/review/comment",
      "/v1/review/{review_id}/comment">>

\* response.text[:500]
PreviewLen == 500
Truncate(n) == Min(n, PreviewLen)

\* What the marketplace can answer to a reply: the status, the value of
\* response.json() ("invalid" when json() raises) and the length of
\* response.text.
SendStatuses == {200, 302, 400, 404, 429, 500}
TextLens == {0, PreviewLen, PreviewLen + 1}
SendResponses ==
    {[error |-> TRUE, status_code |-> 0, json |-> "invalid", text |-> 0]}
        \cup {[error |-> FALSE, status_code |-> s, json |-> j, text |-> n] :
                s \in SendStatuses, j \in {"invalid", "ack"}, n \in TextLens}

\* The results of send_response: {"ok": True, "data": ...},
\* {"ok": False, "status_code": ..., "text": ...} and {"ok": False,
\* "error": "All endpoints returned 404 or failed"}; text is the length of
\* the preview.
NoResult == [ok |-> FALSE, kind |-> "none", data |-> "", status_code |-> 0,
             text |-> 0]
SendOk(data) == [NoResult EXCEPT !.ok = TRUE, !.kind = "data", !.data = data]
SendRejected(status_code, text) ==
    [NoResult EXCEPT !.kind = "status", !.status_code = status_code,
                     !.text = text]
SendExhausted == [NoResult EXCEPT !.kind = "error"]

\* What the loop body does with the answer of one candidate.  json() raising
\* on a 200 is caught by the inner `except Exception: continue`.
SendOutcome(resp) ==
    IF resp.error THEN [kind |-> "continue", result |-> NoResult]
    ELSE IF resp.status_code = 200
         THEN IF resp.json = "invalid"
              THEN [kind |-> "continue", result |-> NoResult]
              ELSE [kind |-> "return", result |-> SendOk(resp.json)]
    ELSE IF resp.status_code = 404
    THEN [kind |-> "continue", result |-> NoResult]
    ELSE IF resp.status_code < 500 /\ resp.status_code # 404
    THEN [kind |-> "return",
          result |-> SendRejected(resp.status_code, Truncate(resp.text))]
    ELSE [kind |-> "continue", result |-> NoResult]

\* The frame of send_response before it is called.
NoSend == [pc |-> "idle", url |-> 0, log |-> <<>>, result |-> NoResult]

\* send_response up to its first await.
send_response == [NoSend EXCEPT !.pc = "http", !.url = 1]

\* send_response from the answer of candidate f.url to its next await or to
\* its return.
SendReceive(f, resp) ==
    LET o == SendOutcome(resp)
        g == [f EXCEPT !.log = Append(@, [url |-> f.url, resp |-> resp])]
    IN  IF o.kind = "return"
        THEN [g EXCEPT !.pc = "done", !.url = 0, !.result = o.result]
        ELSE IF f.url < Len(send_endpoints)
        THEN [g EXCEPT !.url = f.url + 1]
        ELSE [g EXCEPT !.pc = "done", !.url = 0, !.result = SendExhausted]

-----------------------------------------------------------------------------
(* ReviewService.process_new_review *)

\* The lookup of existing storage by external_id: the deduplication gate.
Exists(st, id) == st[id] > 0

\* The write of one new Review.
Insert(st, id) == [st EXCEPT ![id] = @ + 1]

\* The least element of a non-empty set of positions.
Minimum(S) == CHOOSE x \in S : \A y \in S : x <= y

\* The positions from i on whose payload does not return False at once: it
\* is not found in storage, or process_new_review raises on it.
Stops(revs, i, st) ==
    {j \in i..Len(revs) : revs[j] = 0 \/ ~Exists(st, revs[j])}

\* `for review_data in reviews: await process_new_review(review_data)` from
\* item i on, up to the first await that suspends ("await"), the first
\* exception ("raise") or the end of the batch ("end").  A payload found in
\* storage returns False at once; a new one is written (with auto drafts:
\* after the awaited draft generation) and returns True, counted in sv.
RECURSIVE RunItems(_, _, _, _)
RunItems(revs, i, st, sv) ==
    LET stops == Stops(revs, i, st)
        j == Minimum(stops)
    IN  IF stops = {}
        THEN [kind |-> "end", idx |-> Len(revs) + 1, storage |-> st, saved |-> sv]
        ELSE IF revs[j] = 0
        THEN [kind |-> "raise", idx |-> j, storage |-> st, saved |-> sv]
        ELSE IF auto_response_enabled
        THEN [kind |-> "await", idx |-> j, storage |-> st, saved |-> sv]
        ELSE RunItems(revs, j + 1, Insert(st, revs[j]), sv + 1)

\* process_new_review resumed after draft generation: the write, then the
\* rest of the batch.
ResumeItems(revs, i, st, sv) ==
    RunItems(revs, i + 1, Insert(st, revs[i]), sv + 1)

-----------------------------------------------------------------------------
(* The two ingestion cycles *)

\* The frame of a handler before it is called.
Idle ==
    [pc |-> "idle", offset |-> 0, total_fetched |-> 0, total_saved |-> 0,
     iteration |-> 0, reviews |-> <<>>, reviews_bound |-> FALSE, idx |-> 0,
     url |-> 0,
     payload |-> [limit |-> 0, offset |-> 0, filter |-> [statuses |-> <<>>]],
     batches |-> <<>>, db |-> "none"]

\* db = SessionLocal() of poll_reviews, db = Depends(get_db) of sync_reviews.
SessionLocal(f) == [f EXCEPT !.db = "open"]

\* finally: db.close(), of a handler that got as far as opening a session.
\* A handler without the finally clause: the session stays open.
Close_mut(db) == db

Close(db) == IF db = "open" THEN "closed" ELSE db

\* The handler has ended with pc: its locals are gone and its session is
\* closed (finally: db.close()), its counts and the record of what it
\* received remain.
Ended(f, pc) ==
    [Idle EXCEPT !.pc = pc, !.total_fetched = f.total_fetched,
                 !.total_saved = f.total_saved, !.iteration = f.iteration,
                 !.batches = f.batches, !.db = Close(f.db)]

\* The frame of a get_reviews call followed on its own, before the call.
NoFetch ==
    [pc |-> "idle", url |-> 0, payload |-> Idle.payload, limit |-> 0,
     offset |-> 0, days_back |-> 0,
     resp |-> [error |-> TRUE, status_code |-> 0, body |-> None],
     data |-> None]

\* The reviews of a result, top level or nested under "result".
Extract(result) ==
    LET top == IF result.has_reviews THEN result.reviews ELSE <<>>
    IN  IF top = <<>> /\ result.has_result THEN result.result_reviews ELSE top

\* "we got less than requested"
\* The batch length compared with the smallest page size instead of `limit`.
IsShort_mut(n) == n < MinLimit

IsShort(n) == n < limit

\* What a cycle received for one get_reviews call (kept for the record).
Received(f, kind, n) ==
    [f EXCEPT !.batches = Append(@, [kind |-> kind, n |-> n])]

(* ReviewPoller.poll_reviews *)

\* except Exception: logged; finally: db.close().
\* Without the except clause the exception would leave the coroutine.
PollCaught_mut(f) == Ended(f, "raised")

PollCaught(f) == Ended(f, "caught")

\* After the loop: the log line reads len(reviews), unbound when no batch
\* was ever extracted.
PollEnd(f) ==
    IF f.reviews_bound THEN Ended(f, "returned") ELSE PollCaught(f)

\* The head of `while True`: the next get_reviews call.
\* `offset=total_saved`: the next page asked from the number of items
\* saved so far.
PollFetch_mut(f) ==
    get_reviews([f EXCEPT !.iteration = @ + 1], limit, f.total_saved,
                default_days_back)

PollFetch(f) ==
    get_reviews([f EXCEPT !.iteration = @ + 1], limit, f.offset,
                default_days_back)

PollAfterBatch(f) ==
    LET g == [f EXCEPT !.total_fetched = @ + Len(f.reviews),
                       !.offset = @ + limit]
    IN  IF IsShort(Len(f.reviews)) THEN PollEnd(g) ELSE PollFetch(g)

PollItems(f, r) ==
    [f |-> CASE r.kind = "await" -> [f EXCEPT !.pc = "ai", !.idx = r.idx]
             [] r.kind = "raise" -> PollCaught(f)
             [] OTHER -> PollAfterBatch(f),
     st |-> r.storage]

\* The loop body from the return of get_reviews.
PollGot(f, result, st) ==
    IF ~Truthy(result)
    THEN [f |-> PollEnd(Received(f, "failed", 0)), st |-> st]
    ELSE IF result.type # "dict"
    THEN [f |-> PollCaught(Received(f, "malformed", 0)), st |-> st]
    ELSE LET revs == Extract(result)
             g == [Received(f, "batch", Len(revs))
                     EXCEPT !.reviews = revs, !.reviews_bound = TRUE]
         IN  IF revs = <<>>
             THEN [f |-> PollEnd(g), st |-> st]
             ELSE PollItems(g, RunItems(revs, 1, st, 0))

(* sync_reviews *)

\* except Exception: HTTPException(502).
SyncRaised(f) == Ended(f, "raised")

\* return {"fetched": total_fetched, "saved": total_saved, ...}
SyncEnd(f) == Ended(f, "returned")

\* The head of `for iteration in range(max_iterations)`.
\* `range(max_iterations + 1)`: one batch more.
SyncFetch_mut(f) ==
    IF f.iteration > max_iterations
    THEN SyncEnd(f)
    ELSE get_reviews([f EXCEPT !.iteration = @ + 1], limit, f.offset,
                     sync_days_back)

SyncFetch(f) ==
    IF f.iteration >= max_iterations
    THEN SyncEnd(f)
    ELSE get_reviews([f EXCEPT !.iteration = @ + 1], limit, f.offset,
                     sync_days_back)

\* `total_fetched += limit`: the page size counted instead of the batch.
SyncAfterBatch_mut(f) ==
    LET g == [f EXCEPT !.total_fetched = @ + limit,
                       !.offset = @ + limit]
    IN  IF IsShort(Len(f.reviews)) THEN SyncEnd(g) ELSE SyncFetch(g)

SyncAfterBatch(f) ==
    LET g == [f EXCEPT !.total_fetched = @ + Len(f.reviews),
                       !.offset = @ + limit]
    IN  IF IsShort(Len(f.reviews)) THEN SyncEnd(g) ELSE SyncFetch(g)

\* `total_saved += 1` without `if saved`: every processed item counted.
SyncItems_mut(f, r) ==
    LET g == [f EXCEPT !.total_saved = @ + Len(f.reviews)]
    IN  [f |-> CASE r.kind = "await" -> [g EXCEPT !.pc = "ai", !.idx = r.idx]
                 [] r.kind = "raise" -> SyncRaised(g)
                 [] OTHER -> SyncAfterBatch(g),
         st |-> r.storage]

SyncItems(f, r) ==
    LET g == [f EXCEPT !.total_saved = r.saved]
    IN  [f |-> CASE r.kind = "await" -> [g EXCEPT !.pc = "ai", !.idx = r.idx]
                 [] r.kind = "raise" -> SyncRaised(g)
                 [] OTHER -> SyncAfterBatch(g),
         st |-> r.storage]

\* A failed fetch raised instead of ending the loop.
SyncGot_mut(f, result, st) ==
    IF ~Truthy(result)
    THEN [f |-> SyncRaised(Received(f, "failed", 0)), st |-> st]
    ELSE IF result.type # "dict"
    THEN [f |-> SyncRaised(Received(f, "malformed", 0)), st |-> st]
    ELSE LET revs == Extract(result)
             g == [Received(f, "batch", Len(revs))
                     EXCEPT !.reviews = revs, !.reviews_bound = TRUE]
         IN  IF revs = <<>>
             THEN [f |-> SyncEnd(g), st |-> st]
             ELSE SyncItems(g, RunItems(revs, 1, st, f.total_saved))

SyncGot(f, result, st) ==
    IF ~Truthy(result)
    THEN [f |-> SyncEnd(Received(f, "failed", 0)), st |-> st]
    ELSE IF result.type # "dict"
    THEN [f |-> SyncRaised(Received(f, "malformed", 0)), st |-> st]
    ELSE LET revs == Extract(result)
             g == [Received(f, "batch", Len(revs))
                     EXCEPT !.reviews = revs, !.reviews_bound = TRUE]
         IN  IF revs = <<>>
             THEN [f |-> SyncEnd(g), st |-> st]
             ELSE SyncItems(g, RunItems(revs, 1, st, f.total_saved))

-----------------------------------------------------------------------------
(* ReviewPoller and its AsyncIOScheduler *)

\* The interval job of the poller; its id is its identity in the job store.
Job(minutes) == [id |-> "poll_reviews", minutes |-> minutes]

\* AsyncIOScheduler(): not started, no job.
AsyncIOScheduler == [state |-> "stopped", pending |-> <<>>, jobs |-> <<>>]

\* A job added without replacing the one of the same id.
RealAddJob_mut(jobs, job) == Append(jobs, job)

\* The job store with job added, replace_existing=True.
RealAddJob(jobs, job) ==
    Append(SelectSeq(jobs, LAMBDA j : j.id # job.id), job)

\* scheduler.add_job(..., replace_existing=True): a scheduler that is not
\* running keeps the job pending until it starts.
add_job(sch, job) ==
    IF sch.state = "running"
    THEN [sch EXCEPT !.jobs = RealAddJob(@, job)]
    ELSE [sch EXCEPT !.pending = Append(@, job)]

RECURSIVE AddPending(_, _)
AddPending(jobs, pending) ==
    IF pending = <<>> THEN jobs
    ELSE AddPending(RealAddJob(jobs, Head(pending)), Tail(pending))

\* ReviewPoller.start.  scheduler.start() raises SchedulerAlreadyRunningError
\* on a running scheduler, after add_job has replaced the job.
start(sch) ==
    LET added == add_job(sch, Job(polling_interval_minutes))
    IN  IF added.state = "running"
        THEN [raised |-> TRUE, sch |-> added]
        ELSE [raised |-> FALSE,
              sch |-> [state |-> "running", pending |-> <<>>,
                       jobs |-> AddPending(added.jobs, added.pending)]]

\* job.reschedule(trigger='interval', minutes=minutes) on every job of the id.
RescheduleJobs(jobs, id, minutes) ==
    [k \in 1..Len(jobs) |->
        IF jobs[k].id = id THEN [jobs[k] EXCEPT !.minutes = minutes]
        ELSE jobs[k]]

HasJob(jobs, id) == \E k \in 1..Len(jobs) : jobs[k].id = id

\* ReviewPoller.reschedule: get_job looks among the pending jobs, then in the
\* job store.
reschedule(sch, minutes) ==
    IF HasJob(sch.pending, "poll_reviews")
    THEN [sch EXCEPT !.pending = RescheduleJobs(@, "poll_reviews", minutes)]
    ELSE IF HasJob(sch.jobs, "poll_reviews")
    THEN [sch EXCEPT !.jobs = RescheduleJobs(@, "poll_reviews", minutes)]
    ELSE add_job(sch, Job(minutes))

\* ReviewPoller.stop: scheduler.shutdown() raises SchedulerNotRunningError on
\* a scheduler that is not running; otherwise the job store is emptied.
stop(sch) ==
    IF sch.state = "running" THEN AsyncIOScheduler ELSE sch

\* How a cycle ended, for the history.
CycleOutcome(f) ==
    IF f.pc = "idle" THEN "none"
    ELSE IF f.pc = "returned" /\ f.batches # <<>>
                /\ f.batches[Len(f.batches)].kind = "batch"
    THEN "ok"
    ELSE "failed"

-----------------------------------------------------------------------------
(* YandexGPTService *)

\* Callers that use one service instance, each from one await to the next.
Callers == {"a", "b"}

\* YandexGPTService(api_key, folder_id).
YandexGPTService(key, folder) ==
    [api_key |-> key, folder_id |-> folder, quota_exceeded |-> FALSE]

\* `bool(self.api_key)`: the folder id is not looked at.
_has_credentials_mut(svc) == svc.api_key # ""

_has_credentials(svc) == svc.api_key # "" /\ svc.folder_id # ""

\* The text of the first alternative of a completion, stripped: a sequence
\* of words, <<>> for "".  The Russian words of the code are transliterated.
AiTexts == {<<>>, <<"positive">>, <<"quality">>}

\* The answers of the completion endpoint.  kind "error": client.post raised;
\* "invalid": a body json() raises on; "empty": no alternatives.
AiResponses ==
    {[kind |-> "error", status_code |-> 0, text |-> <<>>]}
        \cup {[kind |-> "status", status_code |-> s, text |-> <<>>] :
                s \in {401, 429, 500}}
        \cup {[kind |-> k, status_code |-> 200, text |-> <<>>] :
                k \in {"invalid", "empty"}}
        \cup {[kind |-> "text", status_code |-> 200, text |-> t] : t \in AiTexts}

\* The value None of _call_api.
NoText == [none |-> TRUE, text |-> <<>>]
Text(t) == [none |-> FALSE, text |-> t]

\* `if result:` on an Optional[str].
HasText(result) == ~result.none /\ result.text # <<>>

\* A breaker that closes again on the next successful completion.
_call_api_mut(svc, resp) ==
    IF resp.kind = "error" THEN [svc |-> svc, result |-> NoText]
    ELSE IF resp.status_code = 200
    THEN [svc |-> [svc EXCEPT !.quota_exceeded = FALSE],
          result |-> IF resp.kind = "text" THEN Text(resp.text) ELSE NoText]
    ELSE IF resp.status_code = 429
    THEN [svc |-> [svc EXCEPT !.quota_exceeded = TRUE], result |-> NoText]
    ELSE [svc |-> svc, result |-> NoText]

\* _call_api from the answer to its request.
_call_api(svc, resp) ==
    IF resp.kind = "error" THEN [svc |-> svc, result |-> NoText]
    ELSE IF resp.status_code = 200
    THEN [svc |-> svc,
          result |-> IF resp.kind = "text" THEN Text(resp.text) ELSE NoText]
    ELSE IF resp.status_code = 429
    THEN [svc |-> [svc EXCEPT !.quota_exceeded = TRUE], result |-> NoText]
    ELSE [svc |-> svc, result |-> NoText]

\* The frame of a caller.
NoCall ==
    [op |-> "none", pc |-> "idle", num_variants |-> 0, signature |-> "",
     variant |-> 0, drafts |-> <<>>, result |-> "", answers |-> <<>>,
     report |-> [available |-> FALSE, credentials_set |-> FALSE,
                 error |-> "none"],
     probes |-> <<>>]

Call(op) == [NoCall EXCEPT !.op = op, !.pc = "http"]
Done(f, result) == [f EXCEPT !.pc = "done", !.result = result]

\* The entry check without `self.quota_exceeded`.
Unavailable_mut(svc) == ~_has_credentials(svc)

\* `if self.quota_exceeded or not self._has_credentials()`
Unavailable(svc) == svc.quota_exceeded \/ ~_has_credentials(svc)

\* analyze_sentiment up to its await, and from the result of _call_api.
analyze_sentiment(svc) ==
    IF Unavailable(svc) THEN Done(Call("analyze_sentiment"), "neutral")
    ELSE Call("analyze_sentiment")

\* result.lower()
Lower(w) ==
    CASE w = "Positive" -> "positive"
      [] w = "BAD" -> "bad"
      [] w = "Dostavka" -> "dostavka"
      [] w = "Packaging" -> "packaging"
      [] OTHER -> w

\* `word in result.lower()`
Occurs(word, text) == \E i \in 1..Len(text) : Lower(text[i]) = word

positive_words == <<"polozhitelnaya", "positive", "khorosho", "good">>
negative_words == <<"otritsatelnaya", "negative", "plokho", "bad">>

\* A sentiment that hands the answer on when it has no word of either list.
Sentiment_mut(result) ==
    IF ~HasText(result) THEN "neutral"
    ELSE IF \E k \in 1..Len(positive_words) :
                Occurs(positive_words[k], result.text)
    THEN "positive"
    ELSE IF \E k \in 1..Len(negative_words) :
                Occurs(negative_words[k], result.text)
    THEN "negative"
    ELSE Lower(result.text[1])

Sentiment(result) ==
    IF ~HasText(result) THEN "neutral"
    ELSE IF \E k \in 1..Len(positive_words) :
                Occurs(positive_words[k], result.text)
    THEN "positive"
    ELSE IF \E k \in 1..Len(negative_words) :
                Occurs(negative_words[k], result.text)
    THEN "negative"
    ELSE "neutral"

\* categorize_review up to its await, and from the result of _call_api.
categorize_review(svc) ==
    IF Unavailable(svc) THEN Done(Call("categorize_review"), "other")
    ELSE Call("categorize_review")

\* The categories dict, in its order.
categories ==
    <<[key |-> "kachestvo", val |-> "quality"],
      [key |-> "quality", val |-> "quality"],
      [key |-> "dostavka", val |-> "delivery"],
      [key |-> "delivery", val |-> "delivery"],
      [key |-> "upakovka", val |-> "packaging"],
      [key |-> "packaging", val |-> "packaging"],
      [key |-> "servis", val |-> "service"],
      [key |-> "service", val |-> "service"]>>

Category(result) ==
    LET found == {k \in 1..Len(categories) :
                    HasText(result) /\ Occurs(categories[k].key, result.text)}
    IN  IF found = {} THEN "other" ELSE categories[First(found)].val

\* The fallback draft.
Fallback(signature) == <<"fallback", signature>>

\* The loop of generate_response_drafts from variant on, up to its next
\* await or its return.
DraftsLoop(f) ==
    IF f.variant > f.num_variants THEN Done(f, "drafts")
    ELSE [f EXCEPT !.pc = "http"]

\* signature or settings.response_signature
Signature(signature) == IF signature = "" THEN "settings" ELSE signature

generate_response_drafts(svc, num_variants, signature) ==
    LET f == [Call("generate_response_drafts")
                EXCEPT !.num_variants = num_variants]
    IN  IF Unavailable(svc) THEN Done(f, "drafts")
        ELSE DraftsLoop([f EXCEPT !.signature = Signature(signature),
                                  !.variant = 1])

\* The loop body without its else branch: a failed variant adds no draft.
DraftsGot_mut(f, result) ==
    DraftsLoop([f EXCEPT !.drafts = IF HasText(result)
                                    THEN Append(@, <<"text", result.text>>)
                                    ELSE @,
                         !.variant = @ + 1])

\* The body of the loop from the result of _call_api.
DraftsGot(f, result) ==
    LET draft == IF HasText(result) THEN <<"text", result.text>>
                 ELSE Fallback(f.signature)
    IN  DraftsLoop([f EXCEPT !.drafts = Append(@, draft), !.variant = @ + 1])

\* check_api_health up to its await, and from the answer to its request; its
\* result is the value of "quota_exceeded" in the dict it returns.
\* The dict it returns is kept in report, as far as "available",
\* "credentials_set" and "error" go (error "none": no such key).
Report(f, available, credentials_set, error) ==
    [f EXCEPT !.report = [available |-> available,
                          credentials_set |-> credentials_set,
                          error |-> error]]

check_api_health(svc) ==
    IF svc.api_key = ""
    THEN Report(Done(Call("check_api_health"), "unavailable"),
                FALSE, FALSE, "Missing API key")
    ELSE IF svc.folder_id = ""
    THEN Report(Done(Call("check_api_health"), "unavailable"),
                FALSE, TRUE, "Missing Folder ID")
    ELSE Call("check_api_health")

\* client.post raised: httpx.ConnectError, httpx.ReadTimeout or another
\* exception.
Raised(resp) == resp.kind \in {"error", "connect_error", "read_timeout"}

\* `status_code == 401`: a 403 would be reported as a generic API error.
HealthError_mut(resp) ==
    IF resp.kind = "connect_error" THEN "Network connect error"
    ELSE IF resp.kind = "read_timeout" THEN "Timeout"
    ELSE IF Raised(resp) THEN "Unexpected error"
    ELSE IF resp.status_code = 200 THEN "none"
    ELSE IF resp.status_code = 429 THEN "Rate limit / quota exceeded (429)"
    ELSE IF resp.status_code = 401
    THEN "Authentication/authorization failed (401/403)"
    ELSE IF resp.status_code = 404 THEN "Endpoint or model not found (404)"
    ELSE "API error"

\* The "error" of the report on the answer to the probe.
HealthError(resp) ==
    IF resp.kind = "connect_error" THEN "Network connect error"
    ELSE IF resp.kind = "read_timeout" THEN "Timeout"
    ELSE IF Raised(resp) THEN "Unexpected error"
    ELSE IF resp.status_code = 200 THEN "none"
    ELSE IF resp.status_code = 429 THEN "Rate limit / quota exceeded (429)"
    ELSE IF resp.status_code \in {401, 403}
    THEN "Authentication/authorization failed (401/403)"
    ELSE IF resp.status_code = 404 THEN "Endpoint or model not found (404)"
    ELSE "API error"

HealthGot(f, resp) ==
    LET g == [f EXCEPT !.probes = Append(@, [exception |-> Raised(resp),
                                             status_code |-> resp.status_code])]
    IN  Report(Done(g, IF Raised(resp) THEN "error"
                       ELSE IF resp.status_code = 200 THEN "available"
                       ELSE IF resp.status_code = 429 THEN "quota_exceeded"
                       ELSE "unavailable"),
               ~Raised(resp) /\ resp.status_code = 200, TRUE,
               HealthError(resp))

\* A text _call_api returns as a draft, or "" for an answer without one.
DraftText(resp) == IF resp.kind = "text" THEN resp.text ELSE <<>>

\* A caller from the answer resp to its pending request, up to its next
\* await or its return.
AiAnswered(f, svc, resp) ==
    IF f.op = "check_api_health"
    THEN [f |-> HealthGot(f, resp), svc |-> svc]
    ELSE LET r == _call_api(svc, resp)
             g == [f EXCEPT !.answers = Append(@, DraftText(resp))]
         IN  [f |-> CASE f.op = "analyze_sentiment" ->
                           Done(g, Sentiment(r.result))
                      [] f.op = "categorize_review" ->
                           Done(g, Category(r.result))
                      [] OTHER -> DraftsGot(g, r.result),
              svc |-> r.svc]

-----------------------------------------------------------------------------
(* The state machine *)

Finished == {"idle", "returned", "caught", "raised", "cancelled"}

\* No get_reviews call is under observation, or the observed one has
\* returned data.
Returned(data) == [done |-> TRUE, data |-> data]
Pending == [done |-> FALSE, data |-> None]

\* The operations followed on their own, before they are called.
InitStandalone ==
    /\ sending = NoSend
    /\ fetch = NoFetch
    /\ given = [constructed |-> FALSE, client_id |-> client_id,
                api_key |-> api_key]

Init ==
    /\ storage = [id \in Ids |-> 0]
    /\ client_id \in {<<>>, <<"1", "0">>}
    /\ api_key \in {<<>>, <<"a">>}
    /\ auto_response_enabled \in BOOLEAN
    /\ task = [p \in Procs |-> Idle]
    /\ requests = <<>>
    /\ returned = Returned(None)
    /\ scheduler = AsyncIOScheduler
    /\ last_cycle = "none"
    /\ yandex = YandexGPTService(yandex_api_key, yandex_folder_id)
    /\ calls = [c \in Callers |-> NoCall]
    /\ observed_429 = [call_api |-> FALSE, health |-> FALSE]
    /\ InitStandalone

\* A cycle that goes on from the page after the first.
poll_reviews_mut ==
    IF ~validate_credentials THEN Ended(Idle, "returned")
    ELSE PollFetch(SessionLocal([Idle EXCEPT !.offset = limit]))

\* poll_reviews up to its first await.
poll_reviews ==
    IF ~validate_credentials THEN Ended(Idle, "returned") ELSE PollFetch(SessionLocal(Idle))

\* sync_reviews up to its first await (HTTPException(400) without
\* credentials).
sync_reviews ==
    IF ~validate_credentials THEN Ended(SessionLocal(Idle), "raised")
    ELSE SyncFetch(SessionLocal(Idle))

\* A handler from the answer resp to its pending request, up to its next
\* await or its end.
Answered(p, resp) ==
    LET r == Receive(task[p], resp)
    IN  IF ~r.returned THEN [f |-> r.f, st |-> storage]
        ELSE IF p \in Polls THEN PollGot(r.f, r.data, storage)
        ELSE SyncGot(r.f, r.data, storage)

\* A handler from the end of the draft generation it awaits.
Resumed(p) ==
    LET f == task[p]
        items == ResumeItems(f.reviews, f.idx, storage, f.total_saved)
    IN  IF p \in Polls THEN PollItems(f, items) ELSE SyncItems(f, items)

\* A tick of the scheduler (or the eager call at startup) calls poll_reviews.
StartPoll ==
    /\ task["poll"].pc \in Finished
    /\ task' = [task EXCEPT !["poll"] = poll_reviews]
    /\ UNCHANGED <<standalone, storage, settings, requests, returned, poller, ai>>

\* POST /api/reviews/sync.
StartSync ==
    /\ task["sync"].pc \in Finished
    /\ task' = [task EXCEPT !["sync"] = sync_reviews]
    /\ UNCHANGED <<standalone, storage, settings, requests, returned, poller, ai>>

\* A scheduled cycle is followed for max fetches; a manual sync ends by itself.
Explored(p, f, max) == p = "sync" \/ f.iteration <= max

\* The pending request of p is answered with resp.
AnswerWithin(p, resp, max) ==
    LET r == Answered(p, resp)
    IN  /\ Explored(p, r.f, max)
        /\ task' = [task EXCEPT ![p] = r.f]
        /\ storage' = r.st

Answer(p, resp) == AnswerWithin(p, resp, MaxFetches)

\* The marketplace answers the pending request of p (or the request fails).
HttpResponse(p) ==
    /\ task[p].pc = "http"
    /\ \E resp \in Responses : Answer(p, resp)
    /\ UNCHANGED <<standalone, settings, requests, returned, poller, ai>>

\* The draft generation awaited in process_new_review ends (with drafts or
\* without).
AiResponseWithin(p, max) ==
    /\ task[p].pc = "ai"
    /\ LET r == Resumed(p)
       IN  /\ Explored(p, r.f, max)
           /\ task' = [task EXCEPT ![p] = r.f]
           /\ storage' = r.st
    /\ UNCHANGED <<standalone, settings, requests, returned, poller, ai>>

AiResponse(p) == AiResponseWithin(p, MaxFetches)

Next ==
    \/ StartPoll
    \/ StartSync
    \/ \E p \in Procs : HttpResponse(p)
    \/ \E p \in Procs : AiResponse(p)

\* A scheduled cycle and a manual sync, interleaved at their awaits.
Spec == Init /\ [][Next]_vars

-----------------------------------------------------------------------------
(* One manual sync at a time, its get_reviews calls under observation *)

\* HttpResponse(p), with the answer and what get_reviews made of it recorded.
ObservedResponse(p) ==
    /\ task[p].pc = "http"
    /\ \E resp \in Responses :
          LET r == Receive(task[p], resp)
              entry == [url |-> task[p].url, error |-> resp.error,
                        status_code |-> resp.status_code, body |-> resp.body]
          IN  /\ Answer(p, resp)
              /\ requests' = IF returned.done THEN <<entry>>
                             ELSE Append(requests, entry)
              /\ returned' = IF r.returned THEN Returned(r.data) ELSE Pending
    /\ UNCHANGED <<standalone, settings, poller, ai>>

NextSync ==
    \/ StartSync
    \/ ObservedResponse("sync")
    \/ AiResponse("sync")

SpecSync == Init /\ [][NextSync]_vars

-----------------------------------------------------------------------------
(* One scheduled cycle at a time, followed for MaxCycleFetches fetches *)

CycleResponse ==
    /\ task["poll"].pc = "http"
    /\ \E resp \in Responses : AnswerWithin("poll", resp, MaxCycleFetches)
    /\ UNCHANGED <<standalone, settings, requests, returned, poller, ai>>

CycleAiResponse == AiResponseWithin("poll", MaxCycleFetches)

NextCycle ==
    \/ StartPoll
    \/ CycleResponse
    \/ CycleAiResponse

SpecCycle == Init /\ [][NextCycle]_vars

-----------------------------------------------------------------------------
(* The poller: startup, ticks, reschedule and stop, with its cycles *)

\* Intervals passed to reschedule.
Minutes == {1, 60}

\* What the marketplace answers to the cycles of the poller: no answer, a
\* rate limit, a single review, a full page, a full page with a payload
\* process_new_review raises on.
PollerResponses ==
    {r \in Responses :
        \/ r.error
        \/ r.status_code = 429
        \/ /\ r.status_code = 200
           /\ r.body \in {FlatBody(Page(0, 1, 0)), FlatBody(Page(0, limit, 0)),
                          FlatBody(Page(0, limit, 2))}}

\* Startup without the immediate fetch.
StartBackgroundTasks_mut ==
    /\ task["eager"].pc \in Finished
    /\ scheduler' = start(scheduler).sch
    /\ UNCHANGED <<standalone, storage, settings, task, requests, returned, last_cycle,
                   ai>>

\* start_background_tasks: poller.start(), then the cycle it awaits, up to
\* its first await.
StartBackgroundTasks ==
    /\ task["eager"].pc \in Finished
    /\ LET r == start(scheduler)
       IN  /\ scheduler' = r.sch
           /\ task' = IF r.raised THEN task
                      ELSE [task EXCEPT !["eager"] = poll_reviews]
    /\ UNCHANGED <<standalone, storage, settings, requests, returned, last_cycle, ai>>

\* poller.reschedule(minutes).
Reschedule ==
    /\ \E minutes \in Minutes : scheduler' = reschedule(scheduler, minutes)
    /\ UNCHANGED <<standalone, storage, settings, task, requests, returned, last_cycle, ai>>

\* The coroutine of a job cancelled at its await.
Cancelled(f) == IF f.pc \in Finished THEN f ELSE Ended(f, "cancelled")

\* shutdown_background_tasks: poller.stop().  The shutdown of the asyncio
\* executor cancels the task of a job in flight, or (older releases of the
\* library) leaves it running.
Stop ==
    /\ scheduler' = stop(scheduler)
    /\ \/ task' = task
       \/ /\ scheduler.state = "running"
          /\ task' = [task EXCEPT !["poll"] = Cancelled(@)]
    /\ UNCHANGED <<standalone, storage, settings, requests, returned, last_cycle, ai>>

\* The interval of the job elapses: the scheduler runs poll_reviews, unless
\* an instance of the job is still running (max_instances is 1).
Tick ==
    /\ scheduler.state = "running"
    /\ HasJob(scheduler.jobs, "poll_reviews")
    /\ task["poll"].pc \in Finished
    /\ task' = [task EXCEPT !["poll"] = poll_reviews]
    /\ last_cycle' = CycleOutcome(task["poll"])
    /\ UNCHANGED <<standalone, storage, settings, requests, returned, scheduler, ai>>

PollerResponse(p) ==
    /\ task[p].pc = "http"
    /\ \E resp \in PollerResponses : Answer(p, resp)
    /\ UNCHANGED <<standalone, settings, requests, returned, poller, ai>>

NextPoller ==
    \/ StartBackgroundTasks
    \/ Reschedule
    \/ Stop
    \/ Tick
    \/ \E p \in Polls : PollerResponse(p)
    \/ \E p \in Polls : AiResponse(p)

SpecPoller == Init /\ [][NextPoller]_vars

-----------------------------------------------------------------------------
(* One YandexGPTService instance and its callers *)

\* num_variants and signature arguments of generate_response_drafts.
Variants == 0..MaxVariants
Signatures == {"", "Anna"}

InitYandex ==
    /\ storage = [id \in Ids |-> 0]
    /\ client_id = <<>>
    /\ api_key = <<>>
    /\ auto_response_enabled = FALSE
    /\ task = [p \in Procs |-> Idle]
    /\ requests = <<>>
    /\ returned = Returned(None)
    /\ scheduler = AsyncIOScheduler
    /\ last_cycle = "none"
    /\ yandex \in {YandexGPTService(key, folder) :
                     key \in {"", "secret"}, folder \in {"", "b1"}}
    /\ calls = [c \in Callers |-> NoCall]
    /\ observed_429 = [call_api |-> FALSE, health |-> FALSE]
    /\ InitStandalone

Free(c) == calls[c].pc \in {"idle", "done"}

AnalyzeSentiment(c) ==
    /\ Free(c)
    /\ calls' = [calls EXCEPT ![c] = analyze_sentiment(yandex)]
    /\ UNCHANGED <<standalone, storage, settings, task, requests, returned, poller,
                   yandex, observed_429>>

CategorizeReview(c) ==
    /\ Free(c)
    /\ calls' = [calls EXCEPT ![c] = categorize_review(yandex)]
    /\ UNCHANGED <<standalone, storage, settings, task, requests, returned, poller,
                   yandex, observed_429>>

GenerateResponseDrafts(c) ==
    /\ Free(c)
    /\ \E n \in Variants, signature \in Signatures :
          calls' = [calls EXCEPT
                      ![c] = generate_response_drafts(yandex, n, signature)]
    /\ UNCHANGED <<standalone, storage, settings, task, requests, returned, poller,
                   yandex, observed_429>>

CheckApiHealth(c) ==
    /\ Free(c)
    /\ calls' = [calls EXCEPT ![c] = check_api_health(yandex)]
    /\ UNCHANGED <<standalone, storage, settings, task, requests, returned, poller,
                   yandex, observed_429>>

\* The completion endpoint answers the pending request of c.
AiAnswerFrom(c, responses) ==
    /\ calls[c].pc = "http"
    /\ \E resp \in responses :
          LET r == AiAnswered(calls[c], yandex, resp)
              which == IF calls[c].op = "check_api_health"
                       THEN "health" ELSE "call_api"
          IN  /\ calls' = [calls EXCEPT ![c] = r.f]
              /\ yandex' = r.svc
              /\ observed_429' =
                    IF resp.kind = "status" /\ resp.status_code = 429
                    THEN [observed_429 EXCEPT ![which] = TRUE]
                    ELSE observed_429
    /\ UNCHANGED <<standalone, storage, settings, task, requests, returned, poller>>

AiAnswer(c) == AiAnswerFrom(c, AiResponses)

NextYandex ==
    \E c \in Callers :
        \/ AnalyzeSentiment(c)
        \/ CategorizeReview(c)
        \/ GenerateResponseDrafts(c)
        \/ CheckApiHealth(c)
        \/ AiAnswer(c)

SpecYandex == InitYandex /\ [][NextYandex]_vars

-----------------------------------------------------------------------------
(* One send_response call followed on its own *)

SendResponse ==
    /\ sending.pc \in {"idle", "done"}
    /\ sending' = send_response
    /\ UNCHANGED <<storage, settings, task, requests, returned, poller, ai,
                   fetch, given>>

SendAnswer ==
    /\ sending.pc = "http"
    /\ \E resp \in SendResponses : sending' = SendReceive(sending, resp)
    /\ UNCHANGED <<storage, settings, task, requests, returned, poller, ai,
                   fetch, given>>

NextSend ==
    \/ SendResponse
    \/ SendAnswer

SpecSend == Init /\ [][NextSend]_vars

-----------------------------------------------------------------------------
(* One get_reviews call with any arguments, followed on its own *)

\* The arguments of the call.
Limits == {-5, 0, 1, 19, 20, 21, 50, 99, 100, 101, 1000}
Offsets == {0, 100}
DaysBack == {-1, 0, 1, 30}

\* 200 bodies with every combination of a top-level list, a nested list, a
\* nested count, a nested total and a top-level total.
Counts == {Missing, 0, 2}
Totals == {Missing, 0, 7}
FetchBodies ==
    {InvalidBody, ListBody}
        \cup {Json("dict", top, IF top THEN Page(0, n, 0) ELSE <<>>,
                   FALSE, <<>>, Missing, Missing, total) :
                top \in BOOLEAN, n \in 0..2, total \in {Missing, 9}}
        \cup {Json("dict", top, IF top THEN Page(0, n, 0) ELSE <<>>,
                   TRUE, Page(1, k, 0), count, nested, total) :
                top \in BOOLEAN, n \in 0..2, k \in 0..2, count \in Counts,
                nested \in Totals, total \in {Missing, 9}}

FetchResponses ==
    {[error |-> TRUE, status_code |-> 0, body |-> None]}
        \cup {[error |-> FALSE, status_code |-> s, body |-> None] :
                s \in {400, 404, 500}}
        \cup {[error |-> FALSE, status_code |-> 200, body |-> b] :
                b \in FetchBodies}

GetReviews ==
    /\ fetch.pc = "idle"
    /\ \E lim \in Limits, off \in Offsets, days_back \in DaysBack :
          fetch' = get_reviews([NoFetch EXCEPT !.limit = lim, !.offset = off,
                                               !.days_back = days_back],
                               lim, off, days_back)
    /\ UNCHANGED <<storage, settings, task, requests, returned, poller, ai,
                   sending, given>>

FetchAnswer ==
    /\ fetch.pc = "http"
    /\ \E resp \in FetchResponses :
          LET r == Receive(fetch, resp)
          IN  fetch' = IF r.returned
                       THEN [r.f EXCEPT !.pc = "done", !.resp = resp,
                                        !.data = r.data]
                       ELSE [r.f EXCEPT !.resp = resp]
    /\ UNCHANGED <<storage, settings, task, requests, returned, poller, ai,
                   sending, given>>

NextFetch ==
    \/ GetReviews
    \/ FetchAnswer

SpecFetch == Init /\ [][NextFetch]_vars

-----------------------------------------------------------------------------
(* The construction of an OzonService *)

\* The strings given as Client-Id and as Api-Key, by argument or by setting.
MaxIdLen == 3
MaxKeyLen == 2
IdStrings == UNION {[1..n -> Chars] : n \in 0..MaxIdLen}
KeyStrings == UNION {[1..n -> {" ", "a"}] : n \in 0..MaxKeyLen}

\* The service is constructed once, with the poller.
NewOzonService ==
    /\ ~given.constructed
    /\ \E id \in IdStrings, key \in KeyStrings,
          set_id \in {<<>>, <<"1">>}, set_key \in {<<>>, <<"a">>} :
          LET service == OzonService(Given(id, set_id), Given(key, set_key))
          IN  /\ client_id' = service.client_id
              /\ api_key' = service.api_key
              /\ given' = [constructed |-> TRUE,
                           client_id |-> Given(id, set_id),
                           api_key |-> Given(key, set_key)]
    /\ UNCHANGED <<storage, auto_response_enabled, task, requests, returned,
                   poller, ai, sending, fetch>>

NextCreds == NewOzonService

SpecCreds == Init /\ [][NextCreds]_vars

-----------------------------------------------------------------------------
(* Sentiment and category of every kind of answer *)

\* Answers of one word, of the vocabulary (in either case) or not, and
\* answers of two words.
Words ==
    {"polozhitelnaya", "positive", "khorosho", "good", "otritsatelnaya",
     "negative", "plokho", "bad", "kachestvo", "quality", "dostavka",
     "delivery", "upakovka", "packaging", "servis", "service", "Positive",
     "BAD", "Dostavka", "neutral", "thanks"}
ClassifyTexts ==
    {<<>>} \cup {<<w>> : w \in Words}
        \cup {<<"bad", "good">>, <<"thanks", "plokho">>,
              <<"service", "quality">>, <<"thanks", "Packaging">>,
              <<"thanks", "neutral">>}

ClassifyResponses ==
    {r \in AiResponses : r.kind # "text"}
        \cup {[kind |-> "text", status_code |-> 200, text |-> t] :
                t \in ClassifyTexts}

NextClassify ==
    \E c \in Callers :
        \/ AnalyzeSentiment(c)
        \/ CategorizeReview(c)
        \/ AiAnswerFrom(c, ClassifyResponses)

SpecClassify == InitYandex /\ [][NextClassify]_vars

-----------------------------------------------------------------------------
(* check_api_health against every kind of answer *)

\* The answers to the probe: those of AiResponses, further statuses, and
\* the exceptions httpx.ConnectError and httpx.ReadTimeout.
HealthResponses ==
    AiResponses
        \cup {[kind |-> "status", status_code |-> s, text |-> <<>>] :
                s \in {302, 403, 404, 503}}
        \cup {[kind |-> k, status_code |-> 0, text |-> <<>>] :
                k \in {"connect_error", "read_timeout"}}

NextHealth ==
    \E c \in Callers :
        \/ CheckApiHealth(c)
        \/ AiAnswerFrom(c, HealthResponses)

SpecHealth == InitYandex /\ [][NextHealth]_vars

-----------------------------------------------------------------------------
(* Properties *)

Last(b) == b[Len(b)]

\* The total size of the batches in a record of received batches.
RECURSIVE SumN(_)
SumN(b) == IF b = <<>> THEN 0 ELSE b[1].n + SumN(Tail(b))

\* The number of stored rows.
Rows(st) == Cardinality(UNION {{<<id, k>> : k \in 1..st[id]} : id \in Ids})

\* A full page: the cycle goes on after it.
IsFull(e) == e.kind = "batch" /\ e.n >= limit
\* A short, non-empty batch.
IsShortBatch(e) == e.kind = "batch" /\ 0 < e.n /\ e.n < limit

\* Classes of answers of a candidate endpoint.
Is200(e) == ~e.error /\ e.status_code = 200
Failing(e) == e.error \/ e.status_code = 404 \/ e.status_code >= 500
Aborting(e) ==
    /\ ~e.error
    /\ 400 <= e.status_code /\ e.status_code < 500
    /\ e.status_code # 404

\* C1: after any interleaving of scheduled cycles and manual syncs, storage
\* holds at most one Review per external_id.
C1_OneReviewPerExternalId == \A id \in Ids : storage[id] <= 1

C3_Http200ReturnsBatch ==
    \A k \in 1..Len(requests) :
        Is200(requests[k]) =>
            /\ k = Len(requests)
            /\ returned = Returned(Normalize(requests[k].body))

\* C4: the candidates are requested in ranked order, each once; a candidate
\* is requested only after every earlier one ended in 404, >= 500 or a
\* transport error, and each of these makes the call go on to the next.
C4_RankedFallback ==
    /\ \A k \in 1..Len(requests) :
          /\ requests[k].url = k
          /\ k < Len(requests) => Failing(requests[k])
          /\ (Failing(requests[k]) /\ k < Len(endpoints)) =>
                \/ k < Len(requests)
                \/ (~returned.done /\ task["sync"].pc = "http"
                        /\ task["sync"].url = k + 1)
    /\ ~returned.done =>
          /\ task["sync"].pc = "http"
          /\ task["sync"].url = Len(requests) + 1
          /\ \A k \in 1..Len(requests) : Failing(requests[k])

\* C5: a status in [400, 500) other than 404 ends the call at once: it
\* returns None and the candidates after it are not requested.
C5_ClientErrorAborts ==
    \A k \in 1..Len(requests) :
        Aborting(requests[k]) =>
            /\ k = Len(requests)
            /\ returned = Returned(None)

\* The first candidate answered 429: the call has returned with the second
\* candidate not requested.
C5_Witness ==
    /\ Len(requests) = 1
    /\ Aborting(requests[1]) /\ requests[1].status_code = 429
    /\ returned.done

\* C6: when every candidate has ended in 404, >= 500 or a transport error,
\* the call has returned None; a call only ever ends by returning: while it
\* has not returned, its next candidate is being requested.
C6_ExhaustionReturnsNone ==
    /\ (/\ Len(requests) = Len(endpoints)
        /\ \A k \in 1..Len(requests) : Failing(requests[k]))
          => returned = Returned(None)
    /\ ~returned.done =>
          /\ task["sync"].pc = "http"
          /\ Len(requests) < Len(endpoints)

\* Both candidates failed, one of them by a transport error.
C6_Witness ==
    /\ Len(requests) = Len(endpoints)
    /\ \A k \in 1..Len(requests) : Failing(requests[k])
    /\ \E k \in 1..Len(requests) : requests[k].error
    /\ returned.done

\* C7: a cycle issues no fetch after a failed fetch, an empty or short batch
\* (or a malformed one), nor a manual sync after max_iterations fetches: a
\* cycle awaiting a fetch has received full pages only, fewer than
\* max_iterations in a manual sync, and has made one call more than it has
\* received results.
C7_NoFetchAfterStop ==
    \A p \in Procs :
        LET f == task[p]
            b == f.batches
        IN  /\ \A i \in 1..Len(b) :
                  ~IsFull(b[i]) => (i = Len(b) /\ f.pc # "http")
            /\ f.iteration = Len(b) + (IF f.pc = "http" THEN 1 ELSE 0)
            /\ p = "sync" => f.iteration <= max_iterations

\* A manual sync has returned after max_iterations full pages, a scheduled
\* cycle after a short batch.
C7_Witness ==
    /\ task["sync"].pc = "returned"
    /\ Len(task["sync"].batches) = max_iterations
    /\ \A i \in 1..max_iterations : IsFull(task["sync"].batches[i])
    /\ task["poll"].pc = "returned"
    /\ Len(task["poll"].batches) = 2
    /\ IsShortBatch(Last(task["poll"].batches))

\* C8: a cycle that has returned after a short batch received full pages
\* before it and reports as fetched the total size of the batches received.
C8_ShortBatchTotal ==
    \A p \in Procs :
        LET f == task[p]
            b == f.batches
        IN  (f.pc = "returned" /\ b # <<>> /\ IsShortBatch(Last(b))) =>
                /\ \A i \in 1..(Len(b) - 1) : IsFull(b[i])
                /\ f.total_fetched = SumN(b)

\* Batches of 100, 100 and 37: fetched is 237.
C8_Witness ==
    LET f == task["sync"]
    IN  /\ f.pc = "returned"
        /\ Len(f.batches) = 3
        /\ f.batches[1].n = 100 /\ f.batches[2].n = 100 /\ f.batches[3].n = 37
        /\ f.total_fetched = 237

\* C9: when the fetch of batch k >= 2 fails the cycle has returned (it did
\* not raise), fetched is the total size of the batches before it, saved is
\* no greater and the reviews of those batches are stored.
C9_FetchFailureEndsCycle ==
    \A p \in Procs :
        LET f == task[p]
            b == f.batches
        IN  (Len(b) >= 2 /\ Last(b).kind = "failed") =>
                /\ f.pc = "returned"
                /\ f.total_fetched = SumN(SubSeq(b, 1, Len(b) - 1))
                /\ f.total_fetched = limit * (Len(b) - 1)
                /\ f.total_saved <= f.total_fetched
                /\ \A id \in Ids : storage[id] >= 1

\* The second fetch of a manual sync failed after a first batch of 100.
C9_Witness ==
    LET f == task["sync"]
    IN  /\ Len(f.batches) = 2
        /\ Last(f.batches).kind = "failed"
        /\ f.pc = "returned"
        /\ f.total_fetched = 100

\* C10: no exception leaves poll_reviews: a scheduled cycle never ends
\* raised, whatever it fetched.
C10_PollNeverRaises == task["poll"].pc # "raised"

\* A scheduled cycle ended in its except clause while processing a batch or
\* on a malformed one.
C10_Witness ==
    /\ task["poll"].pc = "caught"
    /\ task["poll"].batches # <<>>
    /\ Last(task["poll"].batches).kind \in {"batch", "malformed"}

\* C11: a scheduled cycle ends after a bounded number of fetches, however
\* many full pages the marketplace answers: it makes no more get_reviews
\* calls than max_iterations, the cap of a manual sync and the only cap on
\* batches the program has.
C11_ScheduledCycleCapped == task["poll"].iteration <= max_iterations

\* C12: at most one ingestion cycle of the poller is in progress at any time,
\* the cycle awaited at startup included.
C12_OneCycleAtATime ==
    ~(task["poll"].pc \notin Finished /\ task["eager"].pc \notin Finished)

\* The value of an operation that does not call the backend.
ShortCircuit(op) ==
    CASE op = "analyze_sentiment" -> "neutral"
      [] op = "categorize_review" -> "other"
      [] OTHER -> "drafts"

\* C13: quota_exceeded of a service instance starts false and only ever
\* changes from false to true: once true it stays true.
C13_QuotaOnlyRises ==
    /\ yandex.quota_exceeded = FALSE
    /\ [][yandex.quota_exceeded => yandex'.quota_exceeded]_vars

\* The flag is set and a later analyze_sentiment with credentials has
\* returned without calling the backend.
C13_Witness ==
    /\ yandex.quota_exceeded
    /\ _has_credentials(yandex)
    /\ \E c \in Callers :
          /\ calls[c].op = "analyze_sentiment"
          /\ calls[c].pc = "done"
          /\ calls[c].answers = <<>>

\* C14: after a 429 answer to a call of _call_api, every analyze_sentiment,
\* categorize_review and generate_response_drafts call that starts returns
\* at once its short-circuit value (neutral, other, no drafts), with no
\* request to the backend.
C14_QuotaBreaker ==
    [][\A c \in Callers :
          (/\ observed_429.call_api
           /\ Free(c)
           /\ calls'[c] # calls[c]
           /\ calls'[c].op # "check_api_health")
              => /\ calls'[c].pc = "done"
                 /\ calls'[c].answers = <<>>
                 /\ calls'[c].drafts = <<>>
                 /\ calls'[c].result = ShortCircuit(calls'[c].op)]_vars

\* After a 429, generate_response_drafts for one or more variants, with
\* credentials, has returned no drafts.
C14_Witness ==
    /\ observed_429.call_api
    /\ _has_credentials(yandex)
    /\ \E c \in Callers :
          /\ calls[c].op = "generate_response_drafts"
          /\ calls[c].pc = "done"
          /\ calls[c].num_variants > 0
          /\ calls[c].drafts = <<>>

\* C15: a 429 answer observed by any operation of the service,
\* check_api_health included, sets quota_exceeded.
C15_RateLimitSetsQuota ==
    (observed_429.call_api \/ observed_429.health) => yandex.quota_exceeded

\* C16: generate_response_drafts that went past its entry check returns
\* exactly num_variants drafts after num_variants calls of the backend: at
\* each position the text answered, or the fallback with the signature when
\* the call failed, was rate limited or gave no text.
C16_DraftCount ==
    \A c \in Callers :
        LET f == calls[c]
        IN  (f.op = "generate_response_drafts" /\ f.pc = "done"
                /\ f.variant >= 1) =>
                /\ Len(f.drafts) = f.num_variants
                /\ Len(f.answers) = f.num_variants
                /\ f.signature \in {"settings", "Anna"}
                /\ \A i \in 1..f.num_variants :
                      f.drafts[i] = IF f.answers[i] # <<>>
                                    THEN <<"text", f.answers[i]>>
                                    ELSE <<"fallback", f.signature>>

\* Three variants of which two failed, one of them by a 429.
C16_Witness ==
    /\ observed_429.call_api
    /\ \E c \in Callers :
          LET f == calls[c]
          IN  /\ f.op = "generate_response_drafts" /\ f.pc = "done"
              /\ f.num_variants = 3
              /\ Len(f.drafts) = 3
              /\ f.drafts[1] = <<"fallback", "Anna">>
              /\ f.drafts[2][1] = "text"
              /\ f.drafts[3] = <<"fallback", "Anna">>

\* The timers registered with the scheduler, pending or in its job store.
Timers(sch) == sch.pending \o sch.jobs

\* C17: after any start and reschedule calls the poller has at most one
\* registered timer, under the id poll_reviews; a call that changes the
\* registration of a running poller leaves exactly one timer, with the new
\* interval.
C17_OneTimer ==
    [][/\ Len(Timers(scheduler')) <= 1
       /\ \A k \in 1..Len(Timers(scheduler')) :
             Timers(scheduler')[k].id = "poll_reviews"
       /\ (/\ scheduler.state = "running"
           /\ scheduler'.state = "running"
           /\ scheduler' # scheduler)
             => /\ Len(scheduler.jobs) = 1
                /\ \E minutes \in Minutes \cup {polling_interval_minutes} :
                      /\ scheduler'.jobs = <<Job(minutes)>>
                      /\ scheduler.jobs # <<Job(minutes)>>]_vars

\* A running poller rescheduled to 60 minutes.
C17_Witness ==
    /\ scheduler.state = "running"
    /\ scheduler.pending = <<>>
    /\ scheduler.jobs = <<Job(60)>>

\* C18: after stop no tick starts a cycle, and the stop interrupts no cycle
\* in flight: every cycle running when the poller is stopped goes on.
C18_StopLetsCycleFinish ==
    [][/\ (scheduler.state = "running" /\ scheduler'.state = "stopped")
             => task' = task
       /\ (scheduler.state = "stopped" /\ scheduler'.state = "stopped")
             => (task["poll"].pc \in Finished
                    => task'["poll"].pc \in Finished)]_vars

\* C19: the step that starts a stopped poller registers the timer with the
\* configured interval and begins one cycle, the one awaited at startup; the
\* scheduled cycle is not started by it.
C19_StartRunsOneCycle ==
    [][(scheduler.state = "stopped" /\ scheduler'.state = "running")
          => /\ scheduler'.jobs = <<Job(polling_interval_minutes)>>
             /\ scheduler'.pending = <<>>
             /\ task'["poll"] = task["poll"]
             /\ task'["sync"] = task["sync"]
             /\ IF validate_credentials
                THEN /\ task'["eager"].pc = "http"
                     /\ task'["eager"].iteration = 1
                     /\ task'["eager"].payload.offset = 0
                ELSE /\ task'["eager"].pc = "returned"
                     /\ task'["eager"].iteration = 0]_vars

\* The poller was started and its first cycle awaits its first fetch, before
\* any tick.
C19_Witness ==
    /\ scheduler.state = "running"
    /\ scheduler.jobs = <<Job(polling_interval_minutes)>>
    /\ task["eager"].pc = "http"
    /\ task["eager"].iteration = 1
    /\ task["poll"].pc = "idle"

\* C20: the end of a scheduled cycle, however it ended, leaves the scheduler
\* as it is; while the poller runs with its timer a tick can start the next
\* cycle, and a cycle a tick starts fetches first from offset 0.
C20_NextTickIndependent ==
    [][/\ (/\ task["poll"].pc \notin Finished
           /\ task'["poll"].pc \in Finished \ {"cancelled"})
             => scheduler' = scheduler
       /\ (/\ scheduler.state = "running"
           /\ scheduler.jobs # <<>>
           /\ task["poll"].pc \in Finished)
             => ENABLED Tick
       /\ (/\ task["poll"].pc \in Finished
           /\ task'["poll"].pc \notin Finished)
             => /\ task'["poll"].pc = "http"
                /\ task'["poll"].iteration = 1
                /\ task'["poll"].url = 1
                /\ task'["poll"].payload.offset = 0
                /\ scheduler' = scheduler]_vars

\* After a scheduled cycle that failed, the next tick has started a cycle
\* that awaits its first fetch.
C20_Witness ==
    /\ last_cycle = "failed"
    /\ scheduler.state = "running"
    /\ task["poll"].pc = "http"
    /\ task["poll"].iteration = 1
    /\ task["poll"].payload.offset = 0

\* The answer to the k-th request of the send_response call.
SendAnswerOf(k) == sending.log[k].resp

\* After the k-th request the call asked the next candidate.
SendWentOn(k) ==
    \/ k < Len(sending.log) /\ sending.log[k + 1].url = k + 1
    \/ k = Len(sending.log) /\ sending.pc = "http" /\ sending.url = k + 1

\* The call ended on its k-th request with result.
SendEndedWith(k, result) ==
    /\ k = Len(sending.log)
    /\ sending.pc = "done"
    /\ sending.result = result

\* C21: send_response treats the answer of each candidate alike: a 200 ends
\* the call with success and the parsed acknowledgment; a 404 makes it ask
\* the next candidate; any other status up to 499 ends it with a failure
\* carrying the status and the body cut to 500 characters; a call that ran
\* out of candidates ends with the generic failure.
C21_SendPolicy ==
    /\ \A k \in 1..Len(sending.log) :
        LET r == SendAnswerOf(k)
        IN  /\ ~r.error /\ r.status_code = 200
                => SendEndedWith(k, SendOk(r.json))
            /\ ~r.error /\ r.status_code = 404 /\ k < Len(send_endpoints)
                => SendWentOn(k)
            /\ ~r.error /\ r.status_code \notin {200, 404}
                    /\ r.status_code <= 499
                => SendEndedWith(k, SendRejected(r.status_code,
                                    IF r.text > 500 THEN 500 ELSE r.text))
    /\ sending.pc = "done" /\ Len(sending.log) = Len(send_endpoints)
            /\ (LET r == SendAnswerOf(Len(send_endpoints))
                IN  r.error \/ r.status_code = 404 \/ r.status_code >= 500)
        => sending.result = SendExhausted

\* C22: a cycle started by a tick of the schedule asks for reviews of any
\* age: none of its fetch requests carries date_from in its filter.
C22_ScheduledFetchUnrestricted ==
    task["poll"].pc = "http"
        => "date_from" \notin DOMAIN task["poll"].payload.filter

\* C23: the filter of a fetch request has date_from exactly when the call
\* was given a positive days_back; otherwise it has the statuses alone.
C23_DateFromIffPositive ==
    fetch.pc # "idle" =>
        /\ "date_from" \in DOMAIN fetch.payload.filter <=> fetch.days_back >= 1
        /\ fetch.days_back <= 0 => DOMAIN fetch.payload.filter = {"statuses"}

\* A call with days_back = 0 sends the statuses alone, one with days_back = 1
\* sends date_from too.
C23_Witness ==
    /\ fetch.pc = "http"
    /\ fetch.days_back = 0
    /\ DOMAIN fetch.payload.filter = {"statuses"}

\* C27: the limit of a fetch request is the limit the call was given,
\* raised to 20 when below it and lowered to 100 when above it.
C27_LimitClamped ==
    fetch.pc # "idle" =>
        fetch.payload.limit =
            IF fetch.limit < 20 THEN 20
            ELSE IF fetch.limit > 100 THEN 100
            ELSE fetch.limit

\* A call given a limit of 1000 asks for 100 reviews.
C27_Witness ==
    /\ fetch.pc = "http"
    /\ fetch.limit = 1000
    /\ fetch.payload.limit = 100

\* C26: a get_reviews call that returned the body of a 200 returned it
\* normalized: a body without a top-level reviews list whose "result" has
\* one is returned with that list as its reviews and with the count of
\* "result" (its total, when it has no count) as its total; a body with a
\* top-level reviews list is returned as it is.
C26_ResultNormalized ==
    LET body == fetch.resp.body
    IN  fetch.pc = "done" /\ Is200(fetch.resp) /\ body.type = "dict" =>
            /\ ~body.has_reviews /\ body.has_result =>
                /\ fetch.data.has_reviews
                /\ fetch.data.reviews = body.result_reviews
                /\ body.result_count # Missing
                    => fetch.data.total = body.result_count
                /\ body.result_count = Missing /\ body.result_total # Missing
                    => fetch.data.total = body.result_total
            /\ body.has_reviews => fetch.data = body

C25_NoSessionAcrossAwait ==
    \A p \in Procs :
        task[p].pc \in {"http", "ai"} => task[p].db # "open"

\* A string with a character that is not white space.
Visible(s) == \E i \in 1..Len(s) : s[i] # " "
AllDigits(s) == s # <<>> /\ \A i \in 1..Len(s) : s[i] \in {"0", "1"}

\* C28: validate_credentials is true exactly when the Client-Id and the
\* Api-Key the service was given both have a character other than white
\* space; the service holds them stripped of white space, a Client-Id that
\* is a number in its canonical form (no leading zeros).
C28_ValidIffBothGiven ==
    /\ validate_credentials <=> Visible(given.client_id) /\ Visible(given.api_key)
    /\ \A s \in {client_id, api_key} :
          s # <<>> => s[1] # " " /\ s[Len(s)] # " "
    /\ AllDigits(client_id) => Len(client_id) = 1 \/ client_id[1] # "0"

\* A service given " 01" and " a" holds "1" and "a" and has credentials;
\* one given a blank Api-Key has none.
C28_Witness ==
    /\ given.constructed
    /\ given.client_id = <<" ", "0", "1">>
    /\ given.api_key = <<" ", "a">>
    /\ client_id = <<"1">>
    /\ api_key = <<"a">>
    /\ validate_credentials

\* The words of an answer in lower case.
LowerCase(w) ==
    CASE w = "Positive" -> "positive"
      [] w = "BAD" -> "bad"
      [] w = "Dostavka" -> "dostavka"
      [] w = "Packaging" -> "packaging"
      [] OTHER -> w
Said(text) == {LowerCase(text[i]) : i \in 1..Len(text)}

SentimentWords ==
    {"polozhitelnaya", "positive", "khorosho", "good", "otritsatelnaya",
     "negative", "plokho", "bad"}
CategoryWords ==
    {"kachestvo", "quality", "dostavka", "delivery", "upakovka", "packaging",
     "servis", "service"}

\* C29: analyze_sentiment returns positive, neutral or negative and
\* categorize_review returns quality, delivery, packaging, service or other;
\* a call that was not made, failed or was answered without a word of the
\* vocabulary, Russian or English, returns neutral and other.
C29_ClassifiersTotal ==
    \A c \in Callers :
        LET f == calls[c]
            said == IF f.answers = <<>> THEN {} ELSE Said(f.answers[1])
        IN  /\ f.pc = "done" /\ f.op = "analyze_sentiment" =>
                /\ f.result \in {"positive", "neutral", "negative"}
                /\ said \cap SentimentWords = {} => f.result = "neutral"
            /\ f.pc = "done" /\ f.op = "categorize_review" =>
                /\ f.result \in
                      {"quality", "delivery", "packaging", "service", "other"}
                /\ said \cap CategoryWords = {} => f.result = "other"

\* An answer in Russian and in capitals was understood, one without a word
\* of the vocabulary gave the default.
C29_Witness ==
    /\ calls["a"].pc = "done" /\ calls["a"].op = "categorize_review"
    /\ calls["a"].answers = << <<"Dostavka">> >>
    /\ calls["a"].result = "delivery"
    /\ calls["b"].pc = "done" /\ calls["b"].op = "analyze_sentiment"
    /\ calls["b"].answers = << <<"thanks", "neutral">> >>
    /\ calls["b"].result = "neutral"

\* C30: on a service without an API key or without a folder id,
\* analyze_sentiment, categorize_review and generate_response_drafts return
\* neutral, other and no draft without a request to the backend, and
\* quota_exceeded stays as the constructor set it.
C30_NoCredentialsNoCall ==
    yandex.api_key = "" \/ yandex.folder_id = "" =>
        /\ ~yandex.quota_exceeded
        /\ \A c \in Callers :
              LET f == calls[c]
              IN  f.op \in {"analyze_sentiment", "categorize_review",
                            "generate_response_drafts"} =>
                      /\ f.pc = "done"
                      /\ f.answers = <<>>
                      /\ f.op = "analyze_sentiment" => f.result = "neutral"
                      /\ f.op = "categorize_review" => f.result = "other"
                      /\ f.op = "generate_response_drafts" => f.drafts = <<>>

\* A service with a key but no folder id has returned no draft where three
\* were asked for, and the neutral sentiment.
C30_Witness ==
    /\ yandex.api_key # "" /\ yandex.folder_id = ""
    /\ calls["a"].op = "generate_response_drafts" /\ calls["a"].pc = "done"
    /\ calls["a"].num_variants = 3
    /\ calls["a"].drafts = <<>>
    /\ calls["b"].op = "analyze_sentiment" /\ calls["b"].pc = "done"
    /\ calls["b"].result = "neutral"

\* The class of a health report, by its "error".
HealthClass(report) ==
    CASE report.error \in {"Missing API key", "Missing Folder ID"}
            -> "credentials-missing"
      [] report.error = "none" -> "healthy"
      [] report.error = "Rate limit / quota exceeded (429)" -> "rate-limited"
      [] report.error = "Authentication/authorization failed (401/403)"
            -> "auth-failed"
      [] report.error = "Endpoint or model not found (404)" -> "not-found"
      [] report.error = "API error" -> "api-error"
      [] OTHER -> "network-error"

\* The class the answer p to a probe belongs to.
ProbeClass(p) ==
    IF p.exception THEN "network-error"
    ELSE IF p.status_code = 200 THEN "healthy"
    ELSE IF p.status_code = 429 THEN "rate-limited"
    ELSE IF p.status_code \in {401, 403} THEN "auth-failed"
    ELSE IF p.status_code = 404 THEN "not-found"
    ELSE "api-error"

\* C31: check_api_health reports credentials-missing, without a probe, when
\* the key or the folder id is empty; otherwise it makes one probe and
\* reports healthy on 200, rate-limited on 429, auth-failed on 401 and 403,
\* not-found on 404, api-error on any other status and network-error on an
\* exception; the report has available = true exactly when the probe was
\* answered 200.
C31_HealthClasses ==
    \A c \in Callers :
        LET f == calls[c]
        IN  f.op = "check_api_health" /\ f.pc = "done" =>
                IF yandex.api_key = "" \/ yandex.folder_id = ""
                THEN /\ f.probes = <<>>
                     /\ HealthClass(f.report) = "credentials-missing"
                     /\ ~f.report.available
                ELSE /\ Len(f.probes) = 1
                     /\ HealthClass(f.report) = ProbeClass(f.probes[1])
                     /\ f.report.available <=>
                            (~f.probes[1].exception
                                /\ f.probes[1].status_code = 200)

\* One probe was answered 403 and reported as an authorization failure,
\* another was answered 200 and reported available.
C31_Witness ==
    /\ calls["a"].op = "check_api_health" /\ calls["a"].pc = "done"
    /\ calls["a"].probes = <<[exception |-> FALSE, status_code |-> 403]>>
    /\ HealthClass(calls["a"].report) = "auth-failed"
    /\ calls["b"].op = "check_api_health" /\ calls["b"].pc = "done"
    /\ calls["b"].report.available

\* C32: in a cycle, scheduled or manual, every request of the k-th
\* get_reviews call asks for 100 reviews from offset (k - 1) * 100, whatever
\* the earlier batches held and however many of their items were saved.
C32_OffsetsByPage ==
    \A p \in Procs :
        task[p].pc = "http" =>
            /\ task[p].iteration >= 1
            /\ task[p].payload.offset = (task[p].iteration - 1) * 100
            /\ task[p].payload.limit = 100

\* The third fetch of a manual sync asks from offset 200 although fewer than
\* 200 reviews were saved.
C32_Witness ==
    /\ task["sync"].pc = "http"
    /\ task["sync"].iteration = 3
    /\ task["sync"].payload.offset = 200
    /\ task["sync"].total_saved < 200
    /\ task["poll"].pc = "http"
    /\ task["poll"].iteration = 2

\* C33: when a variant of a generate_response_drafts call is answered 429,
\* which sets quota_exceeded, the call makes no request for the variants
\* that remain.
C33_NoVariantAfter429 ==
    [][\A c \in Callers :
          (/\ calls[c].op = "generate_response_drafts"
           /\ calls[c].pc = "http"
           /\ calls'[c] # calls[c]
           /\ ~yandex.quota_exceeded
           /\ yandex'.quota_exceeded)
              => calls'[c].pc # "http"]_vars

\* C34: in a send_response call no candidate is asked after one that
\* answered 200, parseable or not: at most one candidate accepts the reply.
C34_AcceptedOnce ==
    LET accepted == {k \in 1..Len(sending.log) :
                        ~SendAnswerOf(k).error
                            /\ SendAnswerOf(k).status_code = 200}
    IN  /\ Cardinality(accepted) <= 1
        /\ \A k \in accepted : k = Len(sending.log) /\ sending.pc = "done"

\* C35: a scheduled cycle that has ended, by its return after the last
\* batch, a failed fetch or an empty batch, or by an exception, has closed
\* the session it opened; without marketplace credentials it has opened no
\* session and made no fetch.
C35_SessionClosedOnExit ==
    \A p \in Polls :
        LET f == task[p]
        IN  IF client_id # <<>> /\ api_key # <<>>
            THEN f.pc \in Finished \ {"idle"} => f.db = "closed"
            ELSE /\ f.pc \in Finished
                 /\ f.db = "none"
                 /\ f.iteration = 0
                 /\ f.batches = <<>>

\* A cycle ended by an exception in the processing of its second batch, its
\* session closed.
C35_Witness ==
    /\ task["poll"].pc = "caught"
    /\ task["poll"].db = "closed"
    /\ Len(task["poll"].batches) = 2
    /\ task["poll"].batches[2].kind = "batch"

\* C36: a manual sync that has returned reports saved <= fetched: fetched is
\* the total size of the batches it received, and saved counts only items
\* that were written to storage.
C36_SavedAtMostFetched ==
    LET f == task["sync"]
    IN  f.pc = "returned" =>
            /\ f.total_saved <= f.total_fetched
            /\ f.total_fetched = SumN(f.batches)
            /\ f.total_saved <= Rows(storage)

\* A sync of a full page and a short one: 137 fetched, fewer saved.
C36_Witness ==
    /\ task["sync"].pc = "returned"
    /\ Len(task["sync"].batches) = 2
    /\ task["sync"].total_fetched = 137
    /\ task["sync"].total_saved >= 1
    /\ task["sync"].total_saved < 137

\* C37: the service instance changes in a step only when that step is the
\* answer 429 to a request of _call_api: an answer 200, 401, 500 or an
\* exception, and any answer to the probe of check_api_health, 429
\* included, leaves quota_exceeded as it was.
C37_OnlyCallApi429SetsQuota ==
    [][yandex' # yandex =>
          /\ ~observed_429.call_api
          /\ observed_429'.call_api
          /\ observed_429'.health = observed_429.health
          /\ ~yandex.quota_exceeded
          /\ yandex' = [yandex EXCEPT !.quota_exceeded = TRUE]]_vars

\* One caller got every variant of its drafts answered without a 429, some
\* by failures, and the probe of the other was answered 429: the flag is
\* still false.
C37_Witness ==
    /\ ~yandex.quota_exceeded
    /\ ~observed_429.call_api
    /\ observed_429.health
    /\ \E c \in Callers :
          /\ calls[c].op = "generate_response_drafts"
          /\ calls[c].pc = "done"
          /\ calls[c].num_variants >= 2
          /\ Len(calls[c].answers) = calls[c].num_variants
          /\ calls[c].answers[1] = <<>>
          /\ calls[c].answers[2] # <<>>
    /\ \E c \in Callers :
          /\ calls[c].op = "check_api_health"
          /\ calls[c].pc = "done"
          /\ calls[c].result = "quota_exceeded"

====
